---- MODULE Spec2Model ----
(***************************************************************************)
(* Model of the Alpaca MCP server (src/server.py): the startup            *)
(* configuration, the call_tool dispatcher and the six tool handlers.     *)
(*                                                                         *)
(* Python strings are sequences of one-character strings, so upper(),     *)
(* lower(), strip() and the f-string messages are computed character by   *)
(* character.  A float is modelled by its number of hundredths; the only  *)
(* true division of the program, total_pnl / invested, is kept as an      *)
(* exact fraction.                                                         *)
(*                                                                         *)
(* No handler contains a suspension point between its entry and its       *)
(* return (every brokerage call is a synchronous call), so invocations    *)
(* dispatched on the event loop serialise: a behaviour of the program is  *)
(* a sequence of whole invocations, each one action of the model.         *)
(***************************************************************************)
EXTENDS Integers, Sequences, FiniteSets

VARIABLES
    universe_file,       \* the file at ALLOWED_SYMBOLS_FILE when the process started
    ALLOWED_SYMBOLS,     \* server.py:109
    MAX_POSITION_SIZE,   \* server.py:60
    MAX_POSITION_VALUE,  \* server.py:61
    name,                \* call_tool's name argument in the latest invocation
    arguments,           \* call_tool's arguments in the latest invocation
    tool,                \* what the tool handler did: its return or raise, the brokerage
                         \* calls it made (with their replies) and its local variables
    response,            \* what call_tool did: the text it returned, or a raise
    failed               \* TRUE once some invocation has met an exception (history)

vars == <<universe_file, ALLOWED_SYMBOLS, MAX_POSITION_SIZE, MAX_POSITION_VALUE,
          name, arguments, tool, response, failed>>

-----------------------------------------------------------------------------
(* Bounds of the explored inputs *)

MaxQty == 3
MaxPrice == 3
MaxPositions == 2
MaxAmount == 1

-----------------------------------------------------------------------------
(* Python str *)

LowerLetters == <<"a","b","c","d","e","f","g","h","i","j","k","l","m","n","o","p","q","r","s","t","u","v","w","x","y","z">>
UpperLetters == <<"A","B","C","D","E","F","G","H","I","J","K","L","M","N","O","P","Q","R","S","T","U","V","W","X","Y","Z">>
Whitespace == {" ", "\n", "\t"}

\* letters.find(c) + 1
IndexIn(c, letters) ==
    IF \E i \in DOMAIN letters : letters[i] = c
    THEN CHOOSE i \in DOMAIN letters : letters[i] = c
    ELSE 0

UpperOf == [i \in DOMAIN LowerLetters |-> UpperLetters[i]]
LowerOf == [i \in DOMAIN UpperLetters |-> LowerLetters[i]]

Mapped(c, i, table) == IF i > 0 THEN table[i] ELSE c

UpperChar(c) == Mapped(c, IndexIn(c, LowerLetters), UpperOf)
LowerChar(c) == Mapped(c, IndexIn(c, UpperLetters), LowerOf)

upper(s) == [i \in DOMAIN s |-> UpperChar(s[i])]
lower(s) == [i \in DOMAIN s |-> LowerChar(s[i])]

RECURSIVE lstrip(_)
lstrip(s) == IF s # <<>> /\ Head(s) \in Whitespace THEN lstrip(Tail(s)) ELSE s

RECURSIVE rstrip(_)
rstrip(s) ==
    IF s # <<>> /\ s[Len(s)] \in Whitespace THEN rstrip(SubSeq(s, 1, Len(s) - 1)) ELSE s

strip(s) == rstrip(lstrip(s))

StartsWith(s, p) == Len(s) >= Len(p) /\ SubSeq(s, 1, Len(p)) = p

Contains(s, p) ==
    \E i \in 1..(Len(s) - Len(p) + 1) : SubSeq(s, i, i + Len(p) - 1) = p

Digits == <<"0","1","2","3","4","5","6","7","8","9">>

RECURSIVE NatStr(_)
NatStr(n) ==
    IF n < 10 THEN <<Digits[n + 1]>> ELSE NatStr(n \div 10) \o <<Digits[(n % 10) + 1]>>

\* str(n) of an int
IntStr(n) == IF n < 0 THEN <<"-">> \o NatStr(-n) ELSE NatStr(n)

RECURSIVE DigitsValue(_)
DigitsValue(s) ==
    IF s = <<>> THEN 0
    ELSE 10 * DigitsValue(SubSeq(s, 1, Len(s) - 1)) + (IndexIn(s[Len(s)], Digits) - 1)

IsDigits(s) == \A i \in DOMAIN s : IndexIn(s[i], Digits) > 0

ParseError == [ok |-> FALSE, n |-> 0]

Negated(r) == [ok |-> r.ok, n |-> -r.n]

UnsignedInt(body) ==
    IF body # <<>> /\ IsDigits(body) THEN [ok |-> TRUE, n |-> DigitsValue(body)] ELSE ParseError

SignedInt(t) ==
    IF t # <<>> /\ Head(t) = "-" THEN Negated(UnsignedInt(Tail(t))) ELSE UnsignedInt(t)

\* int(s) of a decimal numeral: ok is FALSE where Python raises ValueError
ParseInt(s) == SignedInt(strip(s))

(* A float is modelled by its number of hundredths: 12.5 is 1250.  Every   *)
(* float of the model has at most two decimals, so sums, int * float and   *)
(* float * 100 are exact.                                                  *)

Pad2(frac) == SubSeq(frac \o <<"0","0">>, 1, 2)

DecimalParts(whole, frac) ==
    IF IsDigits(whole) /\ IsDigits(frac) /\ Len(whole) + Len(frac) > 0 /\ Len(frac) <= 2
    THEN [ok |-> TRUE, n |-> 100 * DigitsValue(whole) + DigitsValue(Pad2(frac))]
    ELSE ParseError

DecimalSplit(body, dot) ==
    DecimalParts(SubSeq(body, 1, dot - 1), SubSeq(body, dot + 1, Len(body)))

DecimalAt(body, dots) ==
    IF dots = {} THEN DecimalParts(body, <<>>)
    ELSE IF Cardinality(dots) > 1 THEN ParseError
    ELSE DecimalSplit(body, CHOOSE i \in dots : TRUE)

UnsignedDecimal(body) == DecimalAt(body, {i \in DOMAIN body : body[i] = "."})

SignedDecimal(t) ==
    IF t # <<>> /\ Head(t) = "-" THEN Negated(UnsignedDecimal(Tail(t))) ELSE UnsignedDecimal(t)

\* float(s) of a decimal numeral with at most two decimals
ParseFloat(s) == SignedDecimal(strip(s))

\* str(e) of the ValueError of float(s)
FloatValueError(s) == <<"c","o","u","l","d"," ","n","o","t"," ","c","o","n","v","e","r","t"," ","s","t","r","i","n","g"," ","t","o"," ","f","l","o","a","t",":"," ","'">> \o s \o <<"'">>

\* str(e) of the ValueError of int(s)
IntValueError(s) == <<"i","n","v","a","l","i","d"," ","l","i","t","e","r","a","l"," ","f","o","r"," ","i","n","t","(",")"," ","w","i","t","h"," ","b","a","s","e"," ","1","0",":"," ","'">> \o s \o <<"'">>

Abs(n) == IF n < 0 THEN -n ELSE n

RECURSIVE GroupThousands(_)
GroupThousands(d) ==
    IF Len(d) <= 3 THEN d
    ELSE GroupThousands(SubSeq(d, 1, Len(d) - 3)) \o <<",">> \o SubSeq(d, Len(d) - 2, Len(d))

TwoDigits(n) == <<Digits[(n \div 10) + 1], Digits[(n % 10) + 1]>>

\* f"{x:,.2f}"
FormatMoney(h) ==
    (IF h < 0 THEN <<"-">> ELSE <<>>) \o GroupThousands(NatStr(Abs(h) \div 100))
    \o <<".">> \o TwoDigits(Abs(h) % 100)

\* f"{x:+.2f}"
FormatSigned(h) ==
    (IF h < 0 THEN <<"-">> ELSE <<"+">>) \o NatStr(Abs(h) \div 100) \o <<".">> \o TwoDigits(Abs(h) % 100)

\* repr(x), as json.dumps writes a float
FloatRepr(h) ==
    LET f == Abs(h) % 100
    IN  (IF h < 0 THEN <<"-">> ELSE <<>>) \o NatStr(Abs(h) \div 100) \o <<".">>
        \o (IF f % 10 = 0 THEN <<Digits[(f \div 10) + 1]>> ELSE TwoDigits(f))

-----------------------------------------------------------------------------
(* Python values that reach the handlers through the argument map *)

PyStr(s) == [t |-> "str", s |-> s, n |-> 0]
PyInt(n) == [t |-> "int", s |-> <<>>, n |-> n]
PyFloat(n) == [t |-> "float", s |-> <<>>, n |-> n]
PyNone == [t |-> "NoneType", s |-> <<>>, n |-> 0]
\* a key the argument map does not have
Absent == [t |-> "absent", s |-> <<>>, n |-> 0]

TypeName(v) ==
    CASE v.t = "str" -> <<"s","t","r">>
      [] v.t = "int" -> <<"i","n","t">>
      [] v.t = "float" -> <<"f","l","o","a","t">>
      [] OTHER -> <<"N","o","n","e","T","y","p","e">>

\* bool(v)
Truthy(v) ==
    CASE v.t = "str" -> v.s # <<>>
      [] v.t \in {"int", "float"} -> v.n # 0
      [] OTHER -> FALSE

\* str(e) of the AttributeError of v.<method>
AttributeError(v, method) ==
    <<"'">> \o TypeName(v) \o <<"'"," ","o","b","j","e","c","t"," ","h","a","s"," ","n","o"," ","a","t","t","r","i","b","u","t","e"," ","'">> \o method \o <<"'">>

\* str(e) of the TypeError of v > <int>
CompareTypeError(v) ==
    <<"'",">","'"," ","n","o","t"," ","s","u","p","p","o","r","t","e","d"," ","b","e","t","w","e","e","n"," ","i","n","s","t","a","n","c","e","s"," ","o","f"," ","'">> \o TypeName(v) \o <<"'"," ","a","n","d"," ","'","i","n","t","'">>

\* str(e) of the KeyError of arguments[key]
KeyError(key) == <<"'">> \o key \o <<"'">>

\* an exact quotient num / den, den > 0
Fraction(num, den) == [num |-> num, den |-> den]

\* the local variables of analyze_portfolio, lines 349-355
NoLocals ==
    [set |-> FALSE, total_value |-> 0, total_pnl |-> 0, invested |-> 0,
     total_pnl_pct |-> Fraction(0, 1), winners |-> 0, losers |-> 0]

TextContent(text) == [type |-> "text", text |-> text]

\* how a handler ends: it returns [TextContent(type="text", text=text)] or raises an
\* exception whose str(e) is msg, after the brokerage calls `made`
Return(text, made) ==
    [kind |-> "return", content |-> <<TextContent(text)>>, error |-> <<>>, calls |-> made,
     locals |-> NoLocals]
Raise(msg, made) ==
    [kind |-> "raise", content |-> <<>>, error |-> msg, calls |-> made, locals |-> NoLocals]
NotCalled ==
    [kind |-> "none", content |-> <<>>, error |-> <<>>, calls |-> <<>>, locals |-> NoLocals]

-----------------------------------------------------------------------------
(* Environment / config, server.py:60-62 and 98-109 *)

Unset == [set |-> FALSE, value |-> <<>>]
EnvValue(s) == [set |-> TRUE, value |-> s]

\* os.getenv(key, default)
getenv(e, default) == IF e.set THEN e.value ELSE default

NoFile == [exists |-> FALSE, lines |-> <<>>]
File(lines) == [exists |-> TRUE, lines |-> lines]

\* the blank lines kept
load_allowed_symbols_unfiltered(f) ==
    IF f.exists
    THEN {upper(strip(f.lines[i])) : i \in DOMAIN f.lines}
    ELSE {}

load_allowed_symbols(f) ==
    IF f.exists
    THEN {upper(strip(f.lines[i])) : i \in {j \in DOMAIN f.lines : strip(f.lines[j]) # <<>>}}
    ELSE {}

\* the check switched off
validate_symbol_always(symbol) == TRUE

validate_symbol(symbol) ==
    IF ALLOWED_SYMBOLS = {} THEN TRUE ELSE upper(symbol) \in ALLOWED_SYMBOLS

-----------------------------------------------------------------------------
(* The brokerage (alpaca_trade_api.REST) as the handlers see it: every call *)
(* either raises or returns a reply.                                        *)

BrokerageError == <<"f","o","r","b","i","d","d","e","n",".">>

Failed == [ok |-> FALSE, error |-> BrokerageError]

\* a snapshot: latest_trade is None, or carries the float p
Snapshot(has_trade, p) == [ok |-> TRUE, latest_trade |-> has_trade, p |-> p]

\* the Order entity the brokerage returns for an accepted order
Order(symbol, qty, side) ==
    [ok |-> TRUE, id |-> <<"o","-","1">>, symbol |-> symbol, qty |-> IntStr(qty), side |-> side,
     created_at |-> <<"2","0","2","4","-","0","1","-","0","2"," ","1","5",":","0","4",":","0","5","+","0","0",":","0","0">>]

Account(status, equity, cash, buying_power) ==
    [ok |-> TRUE, status |-> status, equity |-> equity, cash |-> cash,
     buying_power |-> buying_power]

\* a Position entity: every figure is a decimal string
Position(symbol, qty, current_price, market_value, unrealized_pl, unrealized_plpc) ==
    [symbol |-> symbol, qty |-> qty, current_price |-> current_price,
     market_value |-> market_value, unrealized_pl |-> unrealized_pl,
     unrealized_plpc |-> unrealized_plpc]

Positions(list) == [ok |-> TRUE, list |-> list]

Closed == [ok |-> TRUE]

Call(fn, args, reply) == [fn |-> fn, args |-> args, reply |-> reply]

-----------------------------------------------------------------------------
(* json.dumps(obj, indent=2): an object is a sequence of <<key, rendered    *)
(* value>>, written at the indentation `pad`                                *)

JsonString(s) == <<"\"">> \o s \o <<"\"">>

RECURSIVE JsonMembers(_, _)
JsonMembers(fields, pad) ==
    IF fields = <<>> THEN <<>>
    ELSE <<"\n">> \o pad \o <<" "," ">> \o JsonString(fields[1][1]) \o <<":"," ">> \o fields[1][2]
         \o (IF Len(fields) > 1 THEN <<",">> ELSE <<>>) \o JsonMembers(Tail(fields), pad)

JsonObject(fields, pad) ==
    IF fields = <<>> THEN <<"{","}">> ELSE <<"{">> \o JsonMembers(fields, pad) \o <<"\n">> \o pad \o <<"}">>

RECURSIVE JsonItems(_)
JsonItems(objects) ==
    IF objects = <<>> THEN <<>>
    ELSE <<"\n"," "," ">> \o JsonObject(objects[1], <<" "," ">>)
         \o (IF Len(objects) > 1 THEN <<",">> ELSE <<>>) \o JsonItems(Tail(objects))

JsonArray(objects) ==
    IF objects = <<>> THEN <<"[","]">> ELSE <<"[">> \o JsonItems(objects) \o <<"\n","]">>

-----------------------------------------------------------------------------
(* get_quote, server.py:216-228 *)

\* lines 220-224 and 287-291
SnapshotPrice(snap) == IF snap.latest_trade THEN PyFloat(snap.p) ELSE PyNone

JsonNumberOrNull(v) == IF v.t = "float" THEN FloatRepr(v.n) ELSE <<"n","u","l","l">>

get_quote(symbol, snap) ==
    IF symbol.t # "str" THEN Raise(AttributeError(symbol, <<"u","p","p","e","r">>), <<>>)
    ELSE LET c1 == <<Call("get_snapshot", [symbol |-> upper(symbol.s)], snap)>>
         IN  IF ~snap.ok THEN Return(<<"E","r","r","o","r"," ","g","e","t","t","i","n","g"," ","q","u","o","t","e",":"," ">> \o snap.error, c1)
             ELSE Return(JsonObject(<< <<<<"s","y","m","b","o","l">>, JsonString(upper(symbol.s))>>,
                                       <<<<"p","r","i","c","e">>, JsonNumberOrNull(SnapshotPrice(snap))>> >>,
                                    <<>>), c1)

-----------------------------------------------------------------------------
(* get_account, server.py:231-242 *)

\* the index of the first FALSE, or 0
FirstFalse(oks) ==
    IF \E i \in DOMAIN oks : ~oks[i]
    THEN CHOOSE i \in DOMAIN oks : ~oks[i] /\ \A j \in 1..(i - 1) : oks[j]
    ELSE 0

\* the first of the strings that float() rejects, or 0
FirstBadFloat(strings) == FirstFalse([i \in DOMAIN strings |-> ParseFloat(strings[i]).ok])

AccountText(acct, figures, bad) ==
    IF bad > 0 THEN <<"E","r","r","o","r"," ","g","e","t","t","i","n","g"," ","a","c","c","o","u","n","t",":"," ">> \o FloatValueError(figures[bad])
    ELSE JsonObject(<< <<<<"s","t","a","t","u","s">>, JsonString(acct.status)>>,
                       <<<<"e","q","u","i","t","y">>, FloatRepr(ParseFloat(acct.equity).n)>>,
                       <<<<"c","a","s","h">>, FloatRepr(ParseFloat(acct.cash).n)>>,
                       <<<<"b","u","y","i","n","g","_","p","o","w","e","r">>, FloatRepr(ParseFloat(acct.buying_power).n)>> >>,
                    <<>>)

get_account(acct) ==
    LET c1 == <<Call("get_account", [none |-> TRUE], acct)>>
        figures == <<acct.equity, acct.cash, acct.buying_power>>
    IN  IF ~acct.ok THEN Return(<<"E","r","r","o","r"," ","g","e","t","t","i","n","g"," ","a","c","c","o","u","n","t",":"," ">> \o acct.error, c1)
        ELSE Return(AccountText(acct, figures, FirstBadFloat(figures)), c1)

-----------------------------------------------------------------------------
(* get_positions, server.py:245-261 *)

PositionFields(p, figures, bad) ==
    IF bad > 0 THEN [ok |-> FALSE, error |-> FloatValueError(figures[bad]), fields |-> <<>>]
    ELSE [ok |-> TRUE, error |-> <<>>,
          fields |->
            << <<<<"s","y","m","b","o","l">>, JsonString(p.symbol)>>,
               <<<<"q","t","y">>, IntStr(ParseInt(p.qty).n)>>,
               <<<<"c","u","r","r","e","n","t","_","p","r","i","c","e">>, FloatRepr(ParseFloat(p.current_price).n)>>,
               <<<<"m","a","r","k","e","t","_","v","a","l","u","e">>, FloatRepr(ParseFloat(p.market_value).n)>>,
               <<<<"u","n","r","e","a","l","i","z","e","d","_","p","l">>, FloatRepr(ParseFloat(p.unrealized_pl).n)>>,
               <<<<"u","n","r","e","a","l","i","z","e","d","_","p","l","p","c">>, FloatRepr(ParseFloat(p.unrealized_plpc).n)>> >>]

\* lines 249-256: the dict of one position, or the ValueError its conversion raises
PositionDict(p) ==
    LET figures == <<p.current_price, p.market_value, p.unrealized_pl, p.unrealized_plpc>>
    IN  IF ~ParseInt(p.qty).ok
        THEN [ok |-> FALSE, error |-> IntValueError(p.qty), fields |-> <<>>]
        ELSE PositionFields(p, figures, FirstBadFloat(figures))

PositionsText(dicts, bad) ==
    IF bad > 0 THEN <<"E","r","r","o","r"," ","g","e","t","t","i","n","g"," ","p","o","s","i","t","i","o","n","s",":"," ">> \o dicts[bad].error
    ELSE JsonArray([i \in DOMAIN dicts |-> dicts[i].fields])

PositionDicts(list) == [i \in DOMAIN list |-> PositionDict(list[i])]

DictsText(dicts) == PositionsText(dicts, FirstFalse([i \in DOMAIN dicts |-> dicts[i].ok]))

get_positions(positions) ==
    LET c1 == <<Call("list_positions", [none |-> TRUE], positions)>>
    IN  IF ~positions.ok THEN Return(<<"E","r","r","o","r"," ","g","e","t","t","i","n","g"," ","p","o","s","i","t","i","o","n","s",":"," ">> \o positions.error, c1)
        ELSE Return(DictsText(PositionDicts(positions.list)), c1)

-----------------------------------------------------------------------------
(* place_order, server.py:264-325 *)

\* compared with the other limit
QuantityExceeds_wrong_limit(qty) == qty > MAX_POSITION_VALUE

\* line 277
QuantityExceeds(qty) == qty > MAX_POSITION_SIZE

\* line 292: not price
PriceMissing(price) == ~Truthy(price)

\* the cap on every side
NotionalExceeds_any_side(side, notional) == notional > MAX_POSITION_VALUE

\* side compared without lower()
NotionalExceeds_case_sensitive(side, notional) ==
    side = <<"b","u","y">> /\ notional > MAX_POSITION_VALUE

\* line 296
NotionalExceeds(side, notional) == lower(side) = <<"b","u","y">> /\ notional > MAX_POSITION_VALUE

\* lines 273, 281, 293, 301-302, 325
SymbolNotAllowedText(symbol) ==
    <<"E","R","R","O","R",":"," ">> \o symbol \o <<" ","i","s"," ","n","o","t"," ","i","n"," ","t","h","e"," ","a","l","l","o","w","e","d"," ","u","n","i","v","e","r","s","e"," ","(","r","i","s","k"," ","c","h","e","c","k"," ","f","a","i","l","e","d",")",".">>

QuantityExceededText(qty) ==
    <<"E","R","R","O","R",":"," ","q","t","y","=">> \o IntStr(qty) \o <<" ","e","x","c","e","e","d","s"," ","M","A","X","_","P","O","S","I","T","I","O","N","_","S","I","Z","E","=">> \o IntStr(MAX_POSITION_SIZE)

PriceUnavailableText == <<"E","R","R","O","R",":"," ","C","o","u","l","d"," ","n","o","t"," ","f","e","t","c","h"," ","l","a","t","e","s","t"," ","p","r","i","c","e">>

NotionalExceededText(notional) ==
    <<"E","R","R","O","R",":"," ","O","r","d","e","r"," ","v","a","l","u","e"," ","$">> \o FormatMoney(notional) \o <<" ","e","x","c","e","e","d","s"," ">>
    \o <<"M","A","X","_","P","O","S","I","T","I","O","N","_","V","A","L","U","E"," ","$">> \o FormatMoney(MAX_POSITION_VALUE)

\* worded as the other tools word it
PlaceOrderFailedText_lowercase(e) == <<"E","r","r","o","r"," ","p","l","a","c","i","n","g"," ","o","r","d","e","r",":"," ">> \o e

PlaceOrderFailedText(e) == <<"E","R","R","O","R"," ","p","l","a","c","i","n","g"," ","o","r","d","e","r",":"," ">> \o e

\* lines 315-323
OrderResultText(order) ==
    IF ~ParseInt(order.qty).ok THEN PlaceOrderFailedText(IntValueError(order.qty))
    ELSE JsonObject(<< <<<<"s","t","a","t","u","s">>, JsonString(<<"s","u","b","m","i","t","t","e","d">>)>>,
                       <<<<"o","r","d","e","r","_","i","d">>, JsonString(order.id)>>,
                       <<<<"s","y","m","b","o","l">>, JsonString(order.symbol)>>,
                       <<<<"q","t","y">>, IntStr(ParseInt(order.qty).n)>>,
                       <<<<"s","i","d","e">>, JsonString(order.side)>>,
                       <<<<"c","r","e","a","t","e","d","_","a","t">>, JsonString(order.created_at)>> >>, <<>>)

\* lines 285-325: the try block, entered with the uppercased symbol and an int qty;
\* accepts says whether the brokerage takes the order or submit_order raises
PlaceOrderTry(symbol, qty, side, time_in_force, snap, accepts) ==
    LET c1 == <<Call("get_snapshot", [symbol |-> symbol], snap)>>
    IN  IF ~snap.ok THEN Return(PlaceOrderFailedText(snap.error), c1)
        ELSE IF PriceMissing(SnapshotPrice(snap)) THEN Return(PriceUnavailableText, c1)
        ELSE IF side.t # "str"
             THEN Return(PlaceOrderFailedText(AttributeError(side, <<"l","o","w","e","r">>)), c1)
        ELSE IF NotionalExceeds(side.s, qty * SnapshotPrice(snap).n)
             THEN Return(NotionalExceededText(qty * SnapshotPrice(snap).n), c1)
        ELSE IF time_in_force.t # "str"
             THEN Return(PlaceOrderFailedText(AttributeError(time_in_force, <<"l","o","w","e","r">>)), c1)
        ELSE LET reply == IF accepts THEN Order(symbol, qty, lower(side.s)) ELSE Failed
                 c2 == c1 \o <<Call("submit_order",
                                    [symbol |-> symbol, qty |-> qty, side |-> lower(side.s),
                                     type |-> <<"m","a","r","k","e","t">>,
                                     time_in_force |-> lower(time_in_force.s)], reply)>>
             IN  IF ~reply.ok THEN Return(PlaceOrderFailedText(reply.error), c2)
                 ELSE Return(OrderResultText(reply), c2)

place_order(symbol, qty, side, time_in_force, snap, accepts) ==
    IF symbol.t # "str" THEN Raise(AttributeError(symbol, <<"u","p","p","e","r">>), <<>>)
    ELSE IF ~validate_symbol(upper(symbol.s))
         THEN Return(SymbolNotAllowedText(upper(symbol.s)), <<>>)
    ELSE IF qty.t # "int" THEN Raise(CompareTypeError(qty), <<>>)
    ELSE IF QuantityExceeds(qty.n) THEN Return(QuantityExceededText(qty.n), <<>>)
    ELSE PlaceOrderTry(upper(symbol.s), qty.n, side, time_in_force, snap, accepts)

-----------------------------------------------------------------------------
(* close_position, server.py:328-334 *)

close_position(symbol, closed) ==
    IF symbol.t # "str" THEN Raise(AttributeError(symbol, <<"u","p","p","e","r">>), <<>>)
    ELSE LET c1 == <<Call("close_position", [symbol |-> upper(symbol.s)], closed)>>
         IN  IF ~closed.ok THEN Return(<<"E","r","r","o","r"," ","c","l","o","s","i","n","g"," ","p","o","s","i","t","i","o","n",":"," ">> \o closed.error, c1)
             ELSE Return(<<"C","l","o","s","e","d"," ","p","o","s","i","t","i","o","n"," ","i","n"," ">> \o upper(symbol.s) \o <<".">>, c1)

-----------------------------------------------------------------------------
(* analyze_portfolio, server.py:337-374 *)

RECURSIVE sum(_)
sum(xs) == IF xs = <<>> THEN 0 ELSE Head(xs) + sum(Tail(xs))

\* zero let through
InvestedPositive_ge(invested) == invested >= 0

\* line 352: the guard of the division
InvestedPositive(invested) == invested > 0

\* a / b * 100 as an exact fraction; ok is FALSE where Python raises ZeroDivisionError
Percent(a, b) ==
    IF b = 0 THEN [ok |-> FALSE, value |-> Fraction(0, 1)]
    ELSE [ok |-> TRUE, value |-> IF b < 0 THEN Fraction(-a * 100, -b) ELSE Fraction(a * 100, b)]

\* line 352
TotalPnlPct(total_pnl, invested) ==
    IF InvestedPositive(invested) THEN Percent(total_pnl, invested)
    ELSE [ok |-> TRUE, value |-> Fraction(0, 1)]

\* flat positions counted
IsWinner_ge(x) == x >= 0

\* line 354
IsWinner(x) == x > 0

\* line 355
IsLoser(x) == x < 0

\* line 349
total_value_of(values) == sum(values)

\* line 350
total_pnl_of(pnl) == sum(pnl)

\* the fraction in hundredths, rounded to the nearest, as f"{x:+.2f}" shows it
RoundHundredths(f) == (200 * f.num + f.den) \div (2 * f.den)

SummaryOf(total_value, total_pnl, pct, winners, losers) ==
    [set |-> pct.ok, total_value |-> total_value, total_pnl |-> total_pnl,
     invested |-> total_value - total_pnl, total_pnl_pct |-> pct.value,
     winners |-> winners, losers |-> losers]

WithPct(total_value, total_pnl, winners, losers) ==
    SummaryOf(total_value, total_pnl, TotalPnlPct(total_pnl, total_value - total_pnl),
              winners, losers)

\* lines 349-355
Summary(values, pnl) ==
    WithPct(total_value_of(values), total_pnl_of(pnl),
            Len(SelectSeq(pnl, IsWinner)), Len(SelectSeq(pnl, IsLoser)))

RECURSIVE Join(_, _)
Join(lines, sep) ==
    IF lines = <<>> THEN <<>>
    ELSE IF Len(lines) = 1 THEN lines[1]
    ELSE lines[1] \o sep \o Join(Tail(lines), sep)

\* lines 357-370
Report(symbols, values, pnl, pnl_pct, s) ==
    << <<"P","o","r","t","f","o","l","i","o"," ","s","u","m","m","a","r","y",":">>,
       <<>>,
       <<"T","o","t","a","l"," ","v","a","l","u","e",":"," ","$">> \o FormatMoney(s.total_value),
       <<"T","o","t","a","l"," ","P","&","L",":"," "," "," ","$">> \o FormatMoney(s.total_pnl) \o <<" ","(">>
           \o FormatSigned(RoundHundredths(s.total_pnl_pct)) \o <<"%",")">>,
       <<"P","o","s","i","t","i","o","n","s",":"," "," "," ">> \o IntStr(Len(symbols)) \o <<" ","(","w","i","n","n","e","r","s",":"," ">> \o IntStr(s.winners)
           \o <<","," ","l","o","s","e","r","s",":"," ">> \o IntStr(s.losers) \o <<")">>,
       <<>>,
       <<"P","e","r","-","p","o","s","i","t","i","o","n",":">> >>
    \o [i \in DOMAIN symbols |->
          <<"-"," ">> \o symbols[i] \o <<":"," ","v","a","l","u","e","=","$">> \o FormatMoney(values[i]) \o <<","," ","P","&","L","=","$">>
          \o FormatMoney(pnl[i]) \o <<" ","(">> \o FormatSigned(pnl_pct[i]) \o <<"%",")">>]

Reported(symbols, values, pnl, pnl_pct, s, c1) ==
    IF ~s.set THEN Return(<<"E","r","r","o","r"," ","a","n","a","l","y","z","i","n","g"," ","p","o","r","t","f","o","l","i","o",":"," ","f","l","o","a","t"," ","d","i","v","i","s","i","o","n"," ","b","y"," ","z","e","r","o">>, c1)
    ELSE [Return(Join(Report(symbols, values, pnl, pnl_pct, s), <<"\n">>), c1)
          EXCEPT !.locals = s]

Summarized(symbols, values, pnl, pnl_pct, c1) ==
    Reported(symbols, values, pnl, pnl_pct, Summary(values, pnl), c1)

\* lines 344-347
Analyzed(ps, figures, bad, c1) ==
    IF bad > 0 THEN Return(<<"E","r","r","o","r"," ","a","n","a","l","y","z","i","n","g"," ","p","o","r","t","f","o","l","i","o",":"," ">> \o FloatValueError(figures[bad]), c1)
    ELSE Summarized([i \in DOMAIN ps |-> ps[i].symbol],
                    [i \in DOMAIN ps |-> ParseFloat(ps[i].market_value).n],
                    [i \in DOMAIN ps |-> ParseFloat(ps[i].unrealized_pl).n],
                    [i \in DOMAIN ps |-> ParseFloat(ps[i].unrealized_plpc).n * 100], c1)

Figures(ps) ==
    [i \in DOMAIN ps |-> ps[i].market_value] \o [i \in DOMAIN ps |-> ps[i].unrealized_pl]
    \o [i \in DOMAIN ps |-> ps[i].unrealized_plpc]

analyze_portfolio(positions) ==
    LET c1 == <<Call("list_positions", [none |-> TRUE], positions)>>
    IN  IF ~positions.ok THEN Return(<<"E","r","r","o","r"," ","a","n","a","l","y","z","i","n","g"," ","p","o","r","t","f","o","l","i","o",":"," ">> \o positions.error, c1)
        ELSE IF positions.list = <<>> THEN Return(<<"N","o"," ","o","p","e","n"," ","p","o","s","i","t","i","o","n","s",".">>, c1)
        ELSE Analyzed(positions.list, Figures(positions.list),
                      FirstBadFloat(Figures(positions.list)), c1)

-----------------------------------------------------------------------------
(* call_tool, server.py:184-208 *)

GET_QUOTE == <<"g","e","t","_","q","u","o","t","e">>
GET_ACCOUNT == <<"g","e","t","_","a","c","c","o","u","n","t">>
GET_POSITIONS == <<"g","e","t","_","p","o","s","i","t","i","o","n","s">>
PLACE_ORDER == <<"p","l","a","c","e","_","o","r","d","e","r">>
CLOSE_POSITION == <<"c","l","o","s","e","_","p","o","s","i","t","i","o","n">>
ANALYZE_PORTFOLIO == <<"a","n","a","l","y","z","e","_","p","o","r","t","f","o","l","i","o">>

Arguments(symbol, qty, side, time_in_force) ==
    [symbol |-> symbol, qty |-> qty, side |-> side, time_in_force |-> time_in_force]

NoArguments == Arguments(Absent, Absent, Absent, Absent)

\* what the brokerage answers to each call the invocation may make
Replies(snapshot, accepts, account, positions, closed) ==
    [snapshot |-> snapshot, accepts |-> accepts, account |-> account,
     positions |-> positions, closed |-> closed]

\* arguments[key] of every key in turn: the first key that is missing, or <<>>
RECURSIVE MissingKey(_, _)
MissingKey(a, keys) ==
    IF keys = <<>> THEN <<>>
    ELSE IF a[Head(keys)].t = "absent"
         THEN CASE Head(keys) = "symbol" -> <<"s","y","m","b","o","l">>
                [] Head(keys) = "qty" -> <<"q","t","y">>
                [] OTHER -> <<"s","i","d","e">>
    ELSE MissingKey(a, Tail(keys))

\* arguments.get("time_in_force", "day")
TimeInForce(a) == IF a.time_in_force.t = "absent" THEN PyStr(<<"d","a","y">>) ELSE a.time_in_force

\* lines 187-205: the body of the try
Dispatch(n, a, env) ==
    LET needs == CASE n \in {GET_QUOTE, CLOSE_POSITION} -> <<"symbol">>
                   [] n = PLACE_ORDER -> <<"symbol", "qty", "side">>
                   [] OTHER -> <<>>
    IN  IF MissingKey(a, needs) # <<>> THEN Raise(KeyError(MissingKey(a, needs)), <<>>)
        ELSE CASE n = GET_QUOTE -> get_quote(a.symbol, env.snapshot)
               [] n = GET_ACCOUNT -> get_account(env.account)
               [] n = GET_POSITIONS -> get_positions(env.positions)
               [] n = PLACE_ORDER ->
                    place_order(a.symbol, a.qty, a.side, TimeInForce(a), env.snapshot,
                                env.accepts)
               [] n = CLOSE_POSITION -> close_position(a.symbol, env.closed)
               [] n = ANALYZE_PORTFOLIO -> analyze_portfolio(env.positions)
               [] OTHER -> Return(<<"U","n","k","n","o","w","n"," ","t","o","o","l",":"," ">> \o n, <<>>)

Respond(content) == [kind |-> "return", content |-> content, error |-> <<>>]
Propagate(e) == [kind |-> "raise", content |-> <<>>, error |-> e]
NoResponse == [kind |-> "none", content |-> <<>>, error |-> <<>>]

\* without the except clause
Guarded_uncaught(n, d) == IF d.kind = "raise" THEN Propagate(d.error) ELSE Respond(d.content)

\* lines 186, 206-208
Guarded(n, d) ==
    IF d.kind = "raise"
    THEN Respond(<<TextContent(<<"E","r","r","o","r"," ","r","u","n","n","i","n","g"," ","t","o","o","l"," ">> \o n \o <<":"," ">> \o d.error)>>)
    ELSE Respond(d.content)

\* whether a handler ran at all: a KeyError or an unknown name ends call_tool before any
Ran(n, a) ==
    /\ n \in {GET_QUOTE, GET_ACCOUNT, GET_POSITIONS, PLACE_ORDER, CLOSE_POSITION,
              ANALYZE_PORTFOLIO}
    /\ n \in {GET_QUOTE, CLOSE_POSITION} => MissingKey(a, <<"symbol">>) = <<>>
    /\ n = PLACE_ORDER => MissingKey(a, <<"symbol", "qty", "side">>) = <<>>

Outcome(n, a, d) ==
    [name |-> n, arguments |-> a, tool |-> IF Ran(n, a) THEN d ELSE NotCalled,
     response |-> Guarded(n, d)]

call_tool(n, a, env) == Outcome(n, a, Dispatch(n, a, env))

-----------------------------------------------------------------------------
(* The inputs explored *)

UniverseFiles ==
    { NoFile,
      File(<<>>),
      File(<< <<"\n">>, <<" "," ","\n">> >>),
      File(<< <<"a","a","p","l","\n">>, <<"\n">>, <<" ","M","S","F","T"," ","\n">> >>) }

\* MAX_POSITION_SIZE and MAX_POSITION_VALUE of the environment: the defaults, or both set
LimitEnvs == {<<Unset, Unset>>, <<EnvValue(<<"2">>), EnvValue(<<"4">>)>>}

SymbolArgs ==
    {PyStr(<<"A","A","P","L">>), PyStr(<<"a","a","p","l">>), PyStr(<<"Z","Z","Z","Z">>), PyInt(7), Absent}

QtyArgs == {PyInt(q) : q \in (0..MaxQty) \cup {1000, 5000}} \cup {PyStr(<<"1","0">>)}

SideArgs == {PyStr(<<"b","u","y">>), PyStr(<<"s","e","l","l">>), PyStr(<<"B","U","Y">>), PyNone}

TimeInForceArgs == {PyStr(<<"G","T","C">>), Absent, PyNone}

SnapshotReplies ==
    {Failed, Snapshot(FALSE, 0)}
    \cup {Snapshot(TRUE, 100 * d) : d \in (0..MaxPrice) \cup {11}}

AccountReplies ==
    { Failed,
      Account(<<"A","C","T","I","V","E">>, <<"1","5","0","0",".","5">>, <<"2","0">>, <<"4","0",".","2","5">>),
      Account(<<"A","C","T","I","V","E">>, <<"n","/","a">>, <<"2","0">>, <<"4","0">>) }

\* the brokerage's own percentage figure of a position, a fraction
PlpcOf(pl) == IF pl > 0 THEN <<"0",".","0","5">> ELSE IF pl < 0 THEN <<"-","0",".","1">> ELSE <<"0">>

Labels == { << <<"A","A","P","L">>, <<"M","S","F","T">>, <<"T","S","L","A">>, <<"N","V","D","A">> >>, << <<"X">>, <<"X">>, <<"X">>, <<"X">> >> }

\* a position is worth nothing or MaxAmount dollars, and has gained or lost up to MaxAmount
PositionFigures == {0, MaxAmount} \X ((-MaxAmount)..MaxAmount)

RECURSIVE FigureLists(_)
FigureLists(n) ==
    IF n = 0 THEN {<<>>}
    ELSE FigureLists(n - 1)
         \cup {Append(l, f) : l \in {m \in FigureLists(n - 1) : Len(m) = n - 1},
                              f \in PositionFigures}

PositionList(figures, labels) ==
    [i \in DOMAIN figures |->
        Position(labels[i], <<"1">>, IntStr(figures[i][1]), IntStr(figures[i][1]),
                 IntStr(figures[i][2]), PlpcOf(figures[i][2]))]

\* the example portfolio of two positions, and a position whose market_value is not a number
WrittenReplies ==
    {Positions(<< Position(<<"A","A","P","L">>, <<"1","0">>, <<"1","0","0">>, <<"1","0","0","0">>, <<"1","0","0">>, <<"0",".","1","1">>),
                 Position(<<"M","S","F","T">>, <<"5">>, <<"1","0","0">>, <<"5","0","0">>, <<"-","5","0">>, <<"-","0",".","0","9">>) >>),
     Positions(<< Position(<<"A","A","P","L">>, <<"1">>, <<"1">>, <<"n","/","a">>, <<"0">>, <<"0">>) >>)}

\* what list_positions gives analyze_portfolio
PositionsReplies ==
    {Failed}
    \cup {Positions(PositionList(f, l)) : f \in FigureLists(MaxPositions), l \in Labels}
    \cup WrittenReplies

\* what list_positions gives get_positions, which only formats each position
ListedReplies ==
    {Failed}
    \cup {Positions(PositionList(f, l)) : f \in FigureLists(1), l \in Labels}
    \cup WrittenReplies

CloseReplies == {Failed, Closed}

-----------------------------------------------------------------------------
(* The process *)

Init ==
    \E f \in UniverseFiles, env \in LimitEnvs :
        /\ universe_file = f
        /\ ALLOWED_SYMBOLS = load_allowed_symbols(f)
        /\ MAX_POSITION_SIZE = ParseInt(getenv(env[1], <<"1","0","0","0">>)).n
        /\ MAX_POSITION_VALUE = ParseFloat(getenv(env[2], <<"1","0","0","0","0">>)).n
        /\ name = <<>>
        /\ arguments = NoArguments
        /\ tool = NotCalled
        /\ response = NoResponse
        /\ failed = FALSE

\* an exception was raised somewhere in the invocation
MetException(r) ==
    \/ r.tool.kind = "raise"
    \/ \E i \in DOMAIN r.tool.calls : ~r.tool.calls[i].reply.ok
    \/ (r.tool.kind = "none" /\ r.response.kind = "raise")

(* One action per tool: a whole invocation of call_tool, from the request to the *)
(* returned content, on an idle server.                                          *)

CallGetQuote ==
    /\ response.kind = "none"
    /\ \E s \in SymbolArgs, snap \in SnapshotReplies :
         \E r \in {call_tool(GET_QUOTE, Arguments(s, Absent, Absent, Absent),
                              Replies(snap, FALSE, Failed, Failed, Failed))} :
            /\ name' = r.name
            /\ arguments' = r.arguments
            /\ tool' = r.tool
            /\ response' = r.response
            /\ failed' = (failed \/ MetException(r))
    /\ UNCHANGED <<universe_file, ALLOWED_SYMBOLS, MAX_POSITION_SIZE, MAX_POSITION_VALUE>>

CallGetAccount ==
    /\ response.kind = "none"
    /\ \E a \in {NoArguments, Arguments(PyStr(<<"A","A","P","L">>), Absent, Absent, Absent)},
            acct \in AccountReplies :
         \E r \in {call_tool(GET_ACCOUNT, a, Replies(Failed, FALSE, acct, Failed, Failed))} :
            /\ name' = r.name
            /\ arguments' = r.arguments
            /\ tool' = r.tool
            /\ response' = r.response
            /\ failed' = (failed \/ MetException(r))
    /\ UNCHANGED <<universe_file, ALLOWED_SYMBOLS, MAX_POSITION_SIZE, MAX_POSITION_VALUE>>

CallGetPositions ==
    /\ response.kind = "none"
    /\ \E ps \in ListedReplies :
         \E r \in {call_tool(GET_POSITIONS, NoArguments,
                              Replies(Failed, FALSE, Failed, ps, Failed))} :
            /\ name' = r.name
            /\ arguments' = r.arguments
            /\ tool' = r.tool
            /\ response' = r.response
            /\ failed' = (failed \/ MetException(r))
    /\ UNCHANGED <<universe_file, ALLOWED_SYMBOLS, MAX_POSITION_SIZE, MAX_POSITION_VALUE>>

CallPlaceOrder ==
    /\ response.kind = "none"
    /\ \E s \in SymbolArgs, q \in QtyArgs, sd \in SideArgs, tif \in TimeInForceArgs,
            snap \in SnapshotReplies, accepts \in BOOLEAN :
         \E r \in {call_tool(PLACE_ORDER, Arguments(s, q, sd, tif),
                              Replies(snap, accepts, Failed, Failed, Failed))} :
            /\ name' = r.name
            /\ arguments' = r.arguments
            /\ tool' = r.tool
            /\ response' = r.response
            /\ failed' = (failed \/ MetException(r))
    /\ UNCHANGED <<universe_file, ALLOWED_SYMBOLS, MAX_POSITION_SIZE, MAX_POSITION_VALUE>>

CallClosePosition ==
    /\ response.kind = "none"
    /\ \E s \in SymbolArgs, closed \in CloseReplies :
         \E r \in {call_tool(CLOSE_POSITION, Arguments(s, Absent, Absent, Absent),
                              Replies(Failed, FALSE, Failed, Failed, closed))} :
            /\ name' = r.name
            /\ arguments' = r.arguments
            /\ tool' = r.tool
            /\ response' = r.response
            /\ failed' = (failed \/ MetException(r))
    /\ UNCHANGED <<universe_file, ALLOWED_SYMBOLS, MAX_POSITION_SIZE, MAX_POSITION_VALUE>>

CallAnalyzePortfolio ==
    /\ response.kind = "none"
    /\ \E ps \in PositionsReplies :
         \E r \in {call_tool(ANALYZE_PORTFOLIO, NoArguments,
                              Replies(Failed, FALSE, Failed, ps, Failed))} :
            /\ name' = r.name
            /\ arguments' = r.arguments
            /\ tool' = r.tool
            /\ response' = r.response
            /\ failed' = (failed \/ MetException(r))
    /\ UNCHANGED <<universe_file, ALLOWED_SYMBOLS, MAX_POSITION_SIZE, MAX_POSITION_VALUE>>

CallUnknownTool ==
    /\ response.kind = "none"
    /\ \E n \in {<<"g","e","t","_","o","r","d","e","r","s">>, <<>>},
            a \in {NoArguments, Arguments(PyNone, Absent, Absent, Absent)} :
         \E r \in {call_tool(n, a, Replies(Failed, FALSE, Failed, Failed, Failed))} :
            /\ name' = r.name
            /\ arguments' = r.arguments
            /\ tool' = r.tool
            /\ response' = r.response
            /\ failed' = (failed \/ MetException(r))
    /\ UNCHANGED <<universe_file, ALLOWED_SYMBOLS, MAX_POSITION_SIZE, MAX_POSITION_VALUE>>

\* the content goes back to the host and the server waits for the next request
\* (app.run, server.py:388-391)
Deliver ==
    /\ response.kind # "none"
    /\ name' = <<>>
    /\ arguments' = NoArguments
    /\ tool' = NotCalled
    /\ response' = NoResponse
    /\ UNCHANGED <<universe_file, ALLOWED_SYMBOLS, MAX_POSITION_SIZE, MAX_POSITION_VALUE,
                   failed>>

Next ==
    \/ CallGetQuote
    \/ CallGetAccount
    \/ CallGetPositions
    \/ CallPlaceOrder
    \/ CallClosePosition
    \/ CallAnalyzePortfolio
    \/ CallUnknownTool
    \/ Deliver

Spec == Init /\ [][Next]_vars

-----------------------------------------------------------------------------
(* Vocabulary of the properties *)

\* the handler of the latest invocation is place_order and it was entered
PlaceOrderRan == name = PLACE_ORDER /\ tool.kind # "none"

\* the text the handler returned
ToolText == tool.content[1].text

Made(fn) == {i \in DOMAIN tool.calls : tool.calls[i].fn = fn}

\* the arguments have the types of the tool's input schema
TypedOrder ==
    /\ arguments.symbol.t = "str"
    /\ arguments.qty.t = "int"
    /\ arguments.side.t = "str"
    /\ arguments.time_in_force.t \in {"str", "absent"}

PassesAllowList ==
    ALLOWED_SYMBOLS = {} \/ upper(arguments.symbol.s) \in ALLOWED_SYMBOLS

\* the snapshot the invocation fetched carries a last trade with a price
PriceObtained(i) ==
    /\ tool.calls[i].fn = "get_snapshot"
    /\ tool.calls[i].reply.ok
    /\ tool.calls[i].reply.latest_trade

IsSymbolNotAllowed(text) ==
    StartsWith(text, <<"E","R","R","O","R",":">>) /\ Contains(text, <<"n","o","t"," ","i","n"," ","t","h","e"," ","a","l","l","o","w","e","d"," ","u","n","i","v","e","r","s","e">>)

IsQuantityExceeded(text) ==
    StartsWith(text, <<"E","R","R","O","R",":">>) /\ Contains(text, <<"e","x","c","e","e","d","s"," ","M","A","X","_","P","O","S","I","T","I","O","N","_","S","I","Z","E">>)

IsPriceUnavailable(text) ==
    StartsWith(text, <<"E","R","R","O","R",":">>) /\ Contains(text, <<"C","o","u","l","d"," ","n","o","t"," ","f","e","t","c","h"," ","l","a","t","e","s","t"," ","p","r","i","c","e">>)

IsNotionalExceeded(text) ==
    StartsWith(text, <<"E","R","R","O","R",":">>) /\ Contains(text, <<"e","x","c","e","e","d","s"," ","M","A","X","_","P","O","S","I","T","I","O","N","_","V","A","L","U","E">>)

IsSubmittedJson(text) ==
    StartsWith(text, <<"{","\n"," "," ","\"","s","t","a","t","u","s","\"",":"," ","\"","s","u","b","m","i","t","t","e","d","\"",",","\n"," "," ","\"","o","r","d","e","r","_","i","d","\"",":"," ">>)
    /\ text[Len(text)] = "}"

-----------------------------------------------------------------------------
(* C1: every submit_order call belongs to a place_order invocation whose     *)
(* order passed all risk checks -- the uppercased symbol is allowed (or the  *)
(* allow-list is empty), qty <= MAX_POSITION_SIZE, a last-trade price was    *)
(* obtained earlier in the same invocation, and a buy has qty * price <=     *)
(* MAX_POSITION_VALUE -- and an invocation makes at most one such call.      *)
C1_SubmittedOrdersPassedRiskChecks ==
    /\ Cardinality(Made("submit_order")) <= 1
    /\ \A i \in Made("submit_order") :
          /\ name = PLACE_ORDER
          /\ arguments.symbol.t = "str" /\ arguments.qty.t = "int"
          /\ PassesAllowList
          /\ arguments.qty.n <= MAX_POSITION_SIZE
          /\ i = 2 /\ PriceObtained(1)
          /\ tool.calls[i].args.symbol = upper(arguments.symbol.s)
          /\ tool.calls[i].args.qty = arguments.qty.n
          /\ lower(arguments.side.s) = <<"b","u","y">>
                => arguments.qty.n * tool.calls[1].reply.p <= MAX_POSITION_VALUE

\* a buy that reached the brokerage, placed after an earlier invocation failed
C1_Witness ==
    /\ failed
    /\ Made("submit_order") # {}
    /\ lower(arguments.side.s) = <<"b","u","y">>
    /\ arguments.qty.n > 0

-----------------------------------------------------------------------------
(* C2: a place_order call whose uppercased symbol is not in a non-empty      *)
(* allow-list returns the "not in the allowed universe" error and makes no   *)
(* brokerage call at all: no get_snapshot, no submit_order.                  *)
C2_DisallowedSymbolRejectedBeforeFetch ==
    (/\ PlaceOrderRan
     /\ arguments.symbol.t = "str"
     /\ ALLOWED_SYMBOLS # {}
     /\ upper(arguments.symbol.s) \notin ALLOWED_SYMBOLS)
    => /\ tool.kind = "return"
       /\ IsSymbolNotAllowed(ToolText)
       /\ tool.calls = <<>>
       /\ response = Respond(tool.content)

C2_Witness ==
    /\ PlaceOrderRan
    /\ arguments.symbol = PyStr(<<"Z","Z","Z","Z">>)
    /\ arguments.qty = PyInt(2)
    /\ arguments.side = PyStr(<<"b","u","y">>)
    /\ ALLOWED_SYMBOLS # {}
    /\ IsSymbolNotAllowed(ToolText)

-----------------------------------------------------------------------------
(* C3 as stated: every order with qty > MAX_POSITION_SIZE is rejected with   *)
(* QuantityExceeded, regardless of symbol or price.                          *)
C3_Original ==
    (/\ PlaceOrderRan
     /\ arguments.symbol.t = "str" /\ arguments.qty.t = "int"
     /\ arguments.qty.n > MAX_POSITION_SIZE)
    => tool.kind = "return" /\ IsQuantityExceeded(ToolText)

(* C3 amended: an order with qty > MAX_POSITION_SIZE is rejected without any *)
(* brokerage call, whatever the price: with QuantityExceeded when its symbol *)
(* passes the allow-list, with SymbolNotAllowed when it does not.            *)
C3_OversizedOrderRejected ==
    (/\ PlaceOrderRan
     /\ arguments.symbol.t = "str" /\ arguments.qty.t = "int"
     /\ arguments.qty.n > MAX_POSITION_SIZE)
    => /\ tool.kind = "return"
       /\ tool.calls = <<>>
       /\ PassesAllowList => IsQuantityExceeded(ToolText)
       /\ ~PassesAllowList => IsSymbolNotAllowed(ToolText)

C3_Witness ==
    /\ PlaceOrderRan
    /\ arguments.symbol = PyStr(<<"A","A","P","L">>)
    /\ arguments.qty = PyInt(5000)
    /\ MAX_POSITION_SIZE = 1000
    /\ IsQuantityExceeded(ToolText)

-----------------------------------------------------------------------------
(* C4: an order that passes the allow-list, quantity and price checks with   *)
(* qty * price > MAX_POSITION_VALUE is rejected with NotionalExceeded and    *)
(* not submitted when it is a buy, and is submitted when it is a sell.       *)
C4_NotionalCapOnBuysOnly ==
    (/\ PlaceOrderRan
     /\ TypedOrder
     /\ PassesAllowList
     /\ arguments.qty.n <= MAX_POSITION_SIZE
     /\ tool.calls # <<>> /\ PriceObtained(1) /\ tool.calls[1].reply.p # 0
     /\ arguments.qty.n * tool.calls[1].reply.p > MAX_POSITION_VALUE)
    => /\ lower(arguments.side.s) = <<"b","u","y">>
            => IsNotionalExceeded(ToolText) /\ Made("submit_order") = {}
       /\ lower(arguments.side.s) = <<"s","e","l","l">>
            => /\ Made("submit_order") = {2}
               /\ tool.calls[2].args.side = <<"s","e","l","l">>
               /\ tool.calls[2].reply.ok => IsSubmittedJson(ToolText)

\* a sell above the cap that the brokerage accepted
C4_Witness ==
    /\ PlaceOrderRan
    /\ arguments.side = PyStr(<<"s","e","l","l">>)
    /\ Made("submit_order") = {2}
    /\ arguments.qty.n * tool.calls[1].reply.p > MAX_POSITION_VALUE
    /\ IsSubmittedJson(ToolText)

-----------------------------------------------------------------------------
(* C5: when the universe file is absent or holds no symbol, no place_order   *)
(* call is rejected with SymbolNotAllowed, whatever the symbol.              *)
HoldsNoSymbol(f) ==
    \A i \in DOMAIN f.lines : \A j \in DOMAIN f.lines[i] : f.lines[i][j] \in Whitespace

C5_EmptyAllowListAdmitsAll ==
    (PlaceOrderRan /\ tool.kind = "return" /\ (~universe_file.exists \/ HoldsNoSymbol(universe_file)))
    => ~Contains(ToolText, <<"n","o","t"," ","i","n"," ","t","h","e"," ","a","l","l","o","w","e","d"," ","u","n","i","v","e","r","s","e">>)

\* a file of blank lines only, and an order for a symbol no list would hold
C5_Witness ==
    /\ PlaceOrderRan
    /\ universe_file.exists /\ universe_file.lines # <<>> /\ HoldsNoSymbol(universe_file)
    /\ arguments.symbol = PyStr(<<"Z","Z","Z","Z">>)
    /\ Made("get_snapshot") # {}

-----------------------------------------------------------------------------
(* C6 as stated: every response of place_order is a JSON OrderResult with    *)
(* status "submitted" or an error string prefixed "ERROR:", also when a      *)
(* brokerage call fails.                                                     *)
C6_Original ==
    (PlaceOrderRan /\ tool.kind = "return")
    => IsSubmittedJson(ToolText) \/ StartsWith(ToolText, <<"E","R","R","O","R",":">>)

(* C6 amended: every response of place_order is a JSON OrderResult with      *)
(* status "submitted" or an error string that begins with "ERROR": the four  *)
(* risk rejections begin "ERROR:", and a failed brokerage call (get_snapshot *)
(* or submit_order) gives "ERROR placing order: " followed by its message.   *)
C6_ResponseShapes ==
    (PlaceOrderRan /\ tool.kind = "return")
    => /\ \/ IsSubmittedJson(ToolText)
          \/ StartsWith(ToolText, <<"E","R","R","O","R",":">>)
          \/ StartsWith(ToolText, <<"E","R","R","O","R"," ","p","l","a","c","i","n","g"," ","o","r","d","e","r",":"," ">>)
       /\ (\E i \in DOMAIN tool.calls : ~tool.calls[i].reply.ok)
            => ToolText = <<"E","R","R","O","R"," ","p","l","a","c","i","n","g"," ","o","r","d","e","r",":"," ">> \o tool.calls[Len(tool.calls)].reply.error
       /\ (TypedOrder /\ \A i \in DOMAIN tool.calls : tool.calls[i].reply.ok)
            => \/ IsSubmittedJson(ToolText)
               \/ IsSymbolNotAllowed(ToolText)
               \/ IsQuantityExceeded(ToolText)
               \/ IsPriceUnavailable(ToolText)
               \/ IsNotionalExceeded(ToolText)
       /\ response = Respond(tool.content)

\* submit_order raised
C6_Witness ==
    /\ PlaceOrderRan
    /\ Made("submit_order") = {2}
    /\ ~tool.calls[2].reply.ok
    /\ StartsWith(ToolText, <<"E","R","R","O","R"," ","p","l","a","c","i","n","g"," ","o","r","d","e","r",":"," ">>)

-----------------------------------------------------------------------------
(* C7: whatever the tool name and the argument map, and whatever brokerage   *)
(* call fails, call_tool returns a list of text contents and never lets an   *)
(* exception out; the configuration later invocations are served from is     *)
(* left as it was.                                                           *)
WellFormed(r) ==
    /\ r.kind = "return"
    /\ Len(r.content) = 1
    /\ r.content[1].type = "text"
    /\ r.content[1].text # <<>>

C7_AlwaysAnswered ==
    /\ [](response.kind # "none" => WellFormed(response))
    /\ [][<<universe_file, ALLOWED_SYMBOLS, MAX_POSITION_SIZE, MAX_POSITION_VALUE>>'
            = <<universe_file, ALLOWED_SYMBOLS, MAX_POSITION_SIZE, MAX_POSITION_VALUE>>]_vars

\* an order is submitted by a process in which an earlier invocation met an exception
C7_Witness ==
    /\ failed
    /\ PlaceOrderRan
    /\ \A i \in DOMAIN tool.calls : tool.calls[i].reply.ok
    /\ IsSubmittedJson(response.content[1].text)

-----------------------------------------------------------------------------
(* The reference aggregation of analyze_portfolio: the positions the         *)
(* brokerage returned, read as numbers, and summed over their indices.       *)

AnalyzeRan == name = ANALYZE_PORTFOLIO /\ tool.kind # "none"

Listed == tool.calls[1].reply.list

\* list_positions returned at least one position and every figure is a numeral
Aggregated ==
    /\ AnalyzeRan
    /\ tool.calls[1].reply.ok
    /\ Listed # <<>>
    /\ \A i \in DOMAIN Listed :
          /\ ParseFloat(Listed[i].market_value).ok
          /\ ParseFloat(Listed[i].unrealized_pl).ok
          /\ ParseFloat(Listed[i].unrealized_plpc).ok

MarketValue(i) == ParseFloat(Listed[i].market_value).n
UnrealizedPl(i) == ParseFloat(Listed[i].unrealized_pl).n

RECURSIVE SumOver(_, _)
SumOver(F(_), S) ==
    IF S = {} THEN 0
    ELSE LET i == CHOOSE j \in S : TRUE IN F(i) + SumOver(F, S \ {i})

RECURSIVE Gcd(_, _)
Gcd(a, b) == IF b = 0 THEN a ELSE Gcd(b, a % b)

\* num / den in lowest terms, den > 0
Lowest(num, den) ==
    [num |-> num \div Gcd(Abs(num), den), den |-> den \div Gcd(Abs(num), den)]

RefTotalValue == SumOver(MarketValue, DOMAIN Listed)
RefTotalPnl == SumOver(UnrealizedPl, DOMAIN Listed)
RefInvested == RefTotalValue - RefTotalPnl

-----------------------------------------------------------------------------
(* C8: for a non-empty list of positions, total_pnl_pct is exactly 0.0 when  *)
(* invested = total_value - total_pnl is <= 0 and total_pnl / invested * 100 *)
(* when invested > 0, and the call never fails with a division error.        *)
C8_PercentGuardsDivision ==
    Aggregated
    => /\ tool.kind = "return"
       /\ tool.locals.set
       /\ ~Contains(ToolText, <<"d","i","v","i","s","i","o","n">>)
       /\ tool.locals.invested = RefInvested
       /\ RefInvested <= 0 => tool.locals.total_pnl_pct = Fraction(0, 1)
       /\ RefInvested > 0
            => /\ tool.locals.total_pnl_pct.den > 0
               /\ Lowest(tool.locals.total_pnl_pct.num, tool.locals.total_pnl_pct.den)
                    = Lowest(RefTotalPnl * 100, RefInvested)

\* a portfolio with gains and nothing invested
C8_Witness ==
    /\ Aggregated
    /\ RefInvested = 0
    /\ RefTotalPnl > 0
    /\ tool.locals.total_pnl_pct = Fraction(0, 1)
    /\ Contains(ToolText, <<"(","+","0",".","0","0","%",")">>)

-----------------------------------------------------------------------------
(* C9: for a non-empty list of positions, total_value is the sum of          *)
(* market_value, total_pnl the sum of unrealized_pl, winners the number of   *)
(* positions with unrealized_pl > 0 and losers the number with               *)
(* unrealized_pl < 0, so winners + losers <= the number of positions; the    *)
(* symbols play no part.  The spec's example gives 1500, 50, 3.45%, 1 and 1. *)
C9_SummaryIsReferenceAggregation ==
    Aggregated
    => /\ tool.locals.total_value = RefTotalValue
       /\ tool.locals.total_pnl = RefTotalPnl
       /\ tool.locals.winners = Cardinality({i \in DOMAIN Listed : UnrealizedPl(i) > 0})
       /\ tool.locals.losers = Cardinality({i \in DOMAIN Listed : UnrealizedPl(i) < 0})
       /\ tool.locals.winners + tool.locals.losers <= Len(Listed)
       /\ (Len(Listed) = 2 /\ MarketValue(1) = 100000 /\ UnrealizedPl(1) = 10000
           /\ MarketValue(2) = 50000 /\ UnrealizedPl(2) = -5000)
            => /\ tool.locals.total_value = 150000
               /\ tool.locals.total_pnl = 5000
               /\ tool.locals.invested = 145000
               /\ RoundHundredths(tool.locals.total_pnl_pct) = 345
               /\ tool.locals.winners = 1 /\ tool.locals.losers = 1

\* a winner, a flat position, and labels that do not tell them apart
C9_Witness ==
    /\ Aggregated
    /\ Len(Listed) = 2
    /\ Listed[1].symbol = Listed[2].symbol
    /\ UnrealizedPl(1) > 0 /\ UnrealizedPl(2) = 0
    /\ tool.locals.winners = 1 /\ tool.locals.losers = 0

-----------------------------------------------------------------------------
(* C10: an order that passes the allow-list and quantity checks is rejected  *)
(* with PriceUnavailable, without a submit_order call, if and only if the    *)
(* snapshot fetched in the invocation has no last trade; a snapshot with a   *)
(* last trade, whatever its price, goes on to the notional check.            *)
C10_PriceUnavailableIffNoLastTrade ==
    (/\ PlaceOrderRan
     /\ TypedOrder
     /\ PassesAllowList
     /\ arguments.qty.n <= MAX_POSITION_SIZE
     /\ tool.calls # <<>> /\ tool.calls[1].reply.ok)
    => ((IsPriceUnavailable(ToolText) /\ Made("submit_order") = {})
          <=> ~tool.calls[1].reply.latest_trade)

====
